---- MODULE Spec2Model ----
(***************************************************************************)
(* A model of src/src/compiler.ts: the swagger document compiler.          *)
(*                                                                         *)
(* Strings are sequences of one-character strings.  Dynamic JavaScript     *)
(* values are tagged records [t |-> <typeof-like tag>, v |-> <payload>].   *)
(* Objects that the code shares by reference (the PathItems) live in a     *)
(* heap and are named by their index in it.                                *)
(*                                                                         *)
(* Base paths and path templates are written over letters, '/' and the     *)
(* braces of placeholders, so that every character outside a placeholder   *)
(* stands for itself in the regular expression built from it.  Numbers are *)
(* non-negative integers, strings are made of digits, letters, white space *)
(* and the collection separators.  The schema validators of the            *)
(* collaborator library are modelled for the keywords type, items and      *)
(* required.                                                               *)
(***************************************************************************)
EXTENDS Integers, Sequences, FiniteSets, TLC

VARIABLES
    document,   \* the Document handed to compile: [basePath, paths]
    heap,       \* the object graph: heap[id] is a PathItem
    compiled,   \* one entry per finished compile() call: [swagger, matcher]
    call,       \* the last call made on a compiled artifact, with its result
    derefClones,\* whether the dereferencing collaborator returns a clone
    schema,     \* stringValidator: the schema fragment closed over
    outcome     \* stringValidator: the last application and what it produced

vars == <<document, heap, compiled, call, derefClones, schema, outcome>>

lifecycleVars == <<document, heap, compiled, call, derefClones>>
coerceVars == <<schema, outcome>>

----------------------------------------------------------------------------
(* Bounds *)

MaxElems == 3        \* elements in a delimited query value
MaxTemplateSegs == 2 \* segments in a path template
MaxPathSegs == 3     \* segments in a request path
MaxCompiles == 2     \* compile() calls on the same document

----------------------------------------------------------------------------
(* JavaScript values *)

Undefined == [t |-> "undefined", v |-> 0]
Null == [t |-> "null", v |-> 0]
Obj == [t |-> "object", v |-> 0]
Bool(b) == [t |-> "boolean", v |-> b]
Num(n) == [t |-> "number", v |-> n]
Str(s) == [t |-> "string", v |-> s]
Arr(a) == [t |-> "array", v |-> a]

Digits == {"0", "1", "2", "3", "4", "5", "6", "7", "8", "9"}

DigitVal(c) ==
    CASE c = "0" -> 0 [] c = "1" -> 1 [] c = "2" -> 2 [] c = "3" -> 3
      [] c = "4" -> 4 [] c = "5" -> 5 [] c = "6" -> 6 [] c = "7" -> 7
      [] c = "8" -> 8 [] c = "9" -> 9

DigitChar(d) ==
    CASE d = 0 -> "0" [] d = 1 -> "1" [] d = 2 -> "2" [] d = 3 -> "3"
      [] d = 4 -> "4" [] d = 5 -> "5" [] d = 6 -> "6" [] d = 7 -> "7"
      [] d = 8 -> "8" [] d = 9 -> "9"

WhiteSpace == {" ", "\t"}

RECURSIVE TrimLeft(_)
TrimLeft(s) ==
    IF s # <<>> /\ Head(s) \in WhiteSpace THEN TrimLeft(Tail(s)) ELSE s

RECURSIVE TrimRight(_)
TrimRight(s) ==
    IF s # <<>> /\ s[Len(s)] \in WhiteSpace
    THEN TrimRight(SubSeq(s, 1, Len(s) - 1))
    ELSE s

RECURSIVE DecimalValue(_)
DecimalValue(s) ==
    IF s = <<>> THEN 0
    ELSE 10 * DecimalValue(SubSeq(s, 1, Len(s) - 1)) + DigitVal(s[Len(s)])

RECURSIVE NumToStr(_)
NumToStr(n) ==
    IF n < 10 THEN <<DigitChar(n)>>
    ELSE NumToStr(n \div 10) \o <<DigitChar(n % 10)>>

RECURSIVE JoinStrings(_, _)
JoinStrings(strs, sep) ==
    IF strs = <<>> THEN <<>>
    ELSE IF Len(strs) = 1 THEN strs[1]
    ELSE strs[1] \o <<sep>> \o JoinStrings(Tail(strs), sep)

\* String(value): the string conversion of a value.  Elements of an array
\* are strings, numbers or booleans here (arrays do not nest).
ScalarToString(value) ==
    CASE value.t = "string" -> value.v
      [] value.t = "number" -> NumToStr(value.v)
      [] value.t = "boolean" ->
            IF value.v THEN <<"t", "r", "u", "e">> ELSE <<"f", "a", "l", "s", "e">>
      [] value.t = "null" -> <<"n", "u", "l", "l">>
      [] value.t = "undefined" -> <<"u", "n", "d", "e", "f", "i", "n", "e", "d">>
      [] value.t = "object" ->
            <<"[", "o", "b", "j", "e", "c", "t", " ", "O", "b", "j", "e", "c", "t", "]">>

ToStringJS(value) ==
    IF value.t = "array"
    THEN JoinStrings([i \in 1..Len(value.v) |-> ScalarToString(value.v[i])], ",")
    ELSE ScalarToString(value)

\* Number(string): white space is trimmed, the empty string is 0, a run of
\* decimal digits is its value, anything else over the alphabet used here
\* (digits, letters, separators) is NaN.
StringToNumber(s) ==
    LET trimmed == TrimRight(TrimLeft(s))
    IN  IF trimmed = <<>> THEN [nan |-> FALSE, n |-> 0]
        ELSE IF \A i \in 1..Len(trimmed) : trimmed[i] \in Digits
        THEN [nan |-> FALSE, n |-> DecimalValue(trimmed)]
        ELSE [nan |-> TRUE, n |-> 0]

\* Number(value), as used by isNaN(value) and by unary plus.
ToNumber(value) ==
    CASE value.t = "number" -> [nan |-> FALSE, n |-> value.v]
      [] value.t = "string" -> StringToNumber(value.v)
      [] value.t = "boolean" -> [nan |-> FALSE, n |-> IF value.v THEN 1 ELSE 0]
      [] value.t = "null" -> [nan |-> FALSE, n |-> 0]
      [] value.t = "array" -> StringToNumber(ToStringJS(value))
      [] OTHER -> [nan |-> TRUE, n |-> 0]

isNaN(value) == ToNumber(value).nan

\* String.prototype.split on a one-character separator.
RECURSIVE Split(_, _)
Split(s, sep) ==
    IF \A i \in 1..Len(s) : s[i] # sep THEN <<Str(s)>>
    ELSE LET first == CHOOSE i \in 1..Len(s) :
                          s[i] = sep /\ \A j \in 1..(i - 1) : s[j] # sep
         IN  <<Str(SubSeq(s, 1, first - 1))>> \o Split(SubSeq(s, first + 1, Len(s)), sep)

----------------------------------------------------------------------------
(* Schema fragments: [type, required, items, collectionFormat].            *)
(* type "" is an absent type; required is "true", "false", "absent" or     *)
(* "array" (a draft-4 list of property names); items is <<>> when absent   *)
(* and <<[type |-> t]>> otherwise; collectionFormat "" is absent.          *)

Falsy(required) == required \in {"false", "absent"}

\* The type predicates of the generated validator.
TypeOK(type, value) ==
    CASE type = "" -> TRUE
      [] type = "number" -> value.t = "number"
      [] type = "integer" -> value.t = "number"
      [] type = "boolean" -> value.t = "boolean"
      [] type = "string" -> value.t = "string"
      [] type = "array" -> value.t = "array"
      [] type = "object" -> value.t = "object"
      [] type = "null" -> value.t = "null"
      [] OTHER -> FALSE

\* jsonValidator(schema)(value): an undefined value is rejected only when the
\* schema says required: true; otherwise the type is checked and, for an
\* array with an items schema, the type of every element.
jsonValidator(sch, value) ==
    IF value.t = "undefined" THEN sch.required # "true"
    ELSE /\ TypeOK(sch.type, value)
         /\ (value.t = "array" /\ sch.items # <<>>) =>
                \A i \in 1..Len(value.v) : TypeOK(sch.items[1].type, value.v[i])

\* The number/integer case applied to one value (also the array element map).
CoerceNumber(value) ==
    IF ~isNaN(value) THEN Num(ToNumber(value).n) ELSE value

\* The boolean case applied to one value (also the array element map).
CoerceBoolean(value) ==
    IF value.t = "string" /\ value.v = <<"t", "r", "u", "e">> THEN Bool(TRUE)
    ELSE IF value.t = "string" /\ value.v = <<"f", "a", "l", "s", "e">> THEN Bool(FALSE)
    ELSE value

\* A collectionFormat switch whose pipes and ssv cases fall into the csv one.
SplitByFormatCsvOnly(collectionFormat, value) ==
    LET format == IF collectionFormat = "" THEN "csv" ELSE collectionFormat
    IN  CASE format \in {"csv", "ssv", "pipes"} -> Arr(Split(ToStringJS(value), ","))
          [] format = "tsv" -> Arr(Split(ToStringJS(value), "\t"))
          [] OTHER -> Arr(<<value>>)

\* The collectionFormat switch for a value that is not an array.
SplitByFormat(collectionFormat, value) ==
    LET format == IF collectionFormat = "" THEN "csv" ELSE collectionFormat
    IN  CASE format = "csv" -> Arr(Split(ToStringJS(value), ","))
          [] format = "ssv" -> Arr(Split(ToStringJS(value), " "))
          [] format = "tsv" -> Arr(Split(ToStringJS(value), "\t"))
          [] format = "pipes" -> Arr(Split(ToStringJS(value), "|"))
          [] OTHER -> Arr(<<value>>)

\* The switch on schema.items.type.
CoerceItems(itemType, value) ==
    CASE itemType \in {"number", "integer"} ->
            Arr([i \in 1..Len(value.v) |-> CoerceNumber(value.v[i])])
      [] itemType = "boolean" ->
            Arr([i \in 1..Len(value.v) |-> CoerceBoolean(value.v[i])])
      [] OTHER -> value

\* The closure returned by stringValidator(schema), applied to value.
\* threw: a TypeError escaped; ret: the boolean returned; handed: the value
\* given to the underlying validator.
stringValidator(sch, value) ==
    IF value.t = "undefined"
    THEN [threw |-> FALSE, ret |-> Falsy(sch.required), handed |-> value]
    ELSE IF sch.type \in {"number", "integer"}
    THEN LET coerced == CoerceNumber(value)
         IN  [threw |-> FALSE, ret |-> jsonValidator(sch, coerced), handed |-> coerced]
    ELSE IF sch.type = "boolean"
    THEN LET coerced == CoerceBoolean(value)
         IN  [threw |-> FALSE, ret |-> jsonValidator(sch, coerced), handed |-> coerced]
    ELSE IF sch.type = "array"
    THEN LET split == IF value.t # "array"
                      THEN SplitByFormat(sch.collectionFormat, value)
                      ELSE value
         IN  IF sch.items = <<>>
             THEN \* schema.items.type: property read on undefined
                  [threw |-> TRUE, ret |-> FALSE, handed |-> split]
             ELSE LET coerced == CoerceItems(sch.items[1].type, split)
                  IN  [threw |-> FALSE, ret |-> jsonValidator(sch, coerced),
                       handed |-> coerced]
    ELSE [threw |-> FALSE, ret |-> jsonValidator(sch, value), handed |-> value]

----------------------------------------------------------------------------
(* Regular expressions built by compile: a sequence of elements, each a    *)
(* literal character, the wildcard [^/]+ or the end anchor $, with the     *)
(* lastIndex slot every RegExp object carries.                             *)

Lit(c) == [k |-> "lit", c |-> c]
Wild == [k |-> "wild", c |-> ""]
End == [k |-> "end", c |-> ""]

RECURSIVE IndexOfClose(_, _)
IndexOfClose(name, i) ==
    IF i > Len(name) THEN 0
    ELSE IF name[i] = "}" THEN i
    ELSE IndexOfClose(name, i + 1)

\* name.replace(/\{[^}]*}/g, '[^/]+') from position i on.
RECURSIVE ReplacePlaceholders(_, _)
ReplacePlaceholders(name, i) ==
    IF i > Len(name) THEN <<>>
    ELSE IF name[i] = "{" /\ IndexOfClose(name, i + 1) # 0
    THEN <<Wild>> \o ReplacePlaceholders(name, IndexOfClose(name, i + 1) + 1)
    ELSE <<Lit(name[i])>> \o ReplacePlaceholders(name, i + 1)

\* new RegExp(basePath + name.replace(...) + '$')
NewRegExp(basePath, name) ==
    [source |-> [i \in 1..Len(basePath) |-> Lit(basePath[i])]
                    \o ReplacePlaceholders(name, 1) \o <<End>>,
     lastIndex |-> 0]

\* The elements of source from p on match s from position i on.
RECURSIVE MatchAt(_, _, _, _)
MatchAt(source, p, s, i) ==
    IF p > Len(source) THEN TRUE
    ELSE CASE source[p].k = "lit" ->
                /\ i <= Len(s)
                /\ s[i] = source[p].c
                /\ MatchAt(source, p + 1, s, i + 1)
           [] source[p].k = "wild" ->
                \E j \in (i + 1)..(Len(s) + 1) :
                    /\ \A m \in i..(j - 1) : s[m] # "/"
                    /\ MatchAt(source, p + 1, s, j)
           [] source[p].k = "end" ->
                /\ i = Len(s) + 1
                /\ MatchAt(source, p + 1, s, i)

\* A search that is tied to the start of the string.
RegExpSearchAnchored(source, s) == MatchAt(source, 1, s, 1)

\* An unanchored search: the pattern may start at any position of s.
RegExpSearch(source, s) == \E i \in 1..(Len(s) + 1) : MatchAt(source, 1, s, i)

\* A stateful test, as made by a regular expression with the g flag: the
\* search starts at lastIndex, which is then moved.
StringMatchStateful(path, regex) ==
    LET found == \E i \in (regex.lastIndex + 1)..(Len(path) + 1) :
                     MatchAt(regex.source, 1, path, i)
    IN  [matched |-> found, lastIndex |-> IF found THEN Len(path) ELSE 0]

\* path.match(regex) for a regex without flags: lastIndex is neither used
\* nor written.
StringMatch(path, regex) ==
    [matched |-> RegExpSearch(regex.source, path), lastIndex |-> regex.lastIndex]

\* name.match(/[^\/]+/g) || []: the maximal runs of characters other than '/'.
RECURSIVE SegmentTokens(_)
SegmentTokens(name) ==
    IF name = <<>> THEN <<>>
    ELSE IF Head(name) = "/" THEN SegmentTokens(Tail(name))
    ELSE LET run == CHOOSE n \in 1..Len(name) :
                        /\ \A m \in 1..n : name[m] # "/"
                        /\ (n = Len(name) \/ name[n + 1] = "/")
         IN  <<SubSeq(name, 1, run)>> \o SegmentTokens(SubSeq(name, run + 1, Len(name)))

----------------------------------------------------------------------------
(* compile(document)                                                       *)
(*                                                                         *)
(* A Parameter is [in, required, type, items, collectionFormat, schema,    *)
(* validator]; schema and validator are <<>> when absent.  A Response is   *)
(* [status, schema, validator].  An attached validator is the closure      *)
(* [kind, schema]: kind "string" for stringValidator(schema), "json" for   *)
(* jsonValidator(schema), "empty" for the no-body predicate.               *)

NoSchema == [type |-> "", required |-> "absent", items |-> <<>>, collectionFormat |-> ""]

\* parameter.schema || parameter
SchemaOf(parameter) ==
    IF parameter.schema # <<>> THEN parameter.schema[1]
    ELSE [type |-> parameter.type, required |-> parameter.required,
          items |-> parameter.items, collectionFormat |-> parameter.collectionFormat]

\* An attachment that leaves parameters outside query and header alone.
AttachParameterQueryOnly(parameter) ==
    IF parameter.in \in {"query", "header"}
    THEN [parameter EXCEPT !.validator = <<[kind |-> "string", schema |-> SchemaOf(parameter)]>>]
    ELSE parameter

\* An attachment that keeps a validator it finds and turns it into the
\* no-body predicate.
AttachParameterRewrap(parameter) ==
    IF parameter.validator # <<>>
    THEN [parameter EXCEPT !.validator = <<[kind |-> "empty", schema |-> NoSchema]>>]
    ELSE IF parameter.in \in {"query", "header"}
    THEN [parameter EXCEPT !.validator = <<[kind |-> "string", schema |-> SchemaOf(parameter)]>>]
    ELSE [parameter EXCEPT !.validator = <<[kind |-> "json", schema |-> SchemaOf(parameter)]>>]

\* The body of the forEach over operation.parameters.
AttachParameter(parameter) ==
    IF parameter.in \in {"query", "header"}
    THEN [parameter EXCEPT !.validator = <<[kind |-> "string", schema |-> SchemaOf(parameter)]>>]
    ELSE [parameter EXCEPT !.validator = <<[kind |-> "json", schema |-> SchemaOf(parameter)]>>]

\* An attachment that gives responses the coercion validator.
AttachResponseCoercing(response) ==
    IF response.schema # <<>>
    THEN [response EXCEPT !.validator = <<[kind |-> "string", schema |-> response.schema[1]]>>]
    ELSE [response EXCEPT !.validator = <<[kind |-> "empty", schema |-> NoSchema]>>]

\* The body of the forEach over operation.responses.
AttachResponse(response) ==
    IF response.schema # <<>>
    THEN [response EXCEPT !.validator = <<[kind |-> "json", schema |-> response.schema[1]]>>]
    ELSE [response EXCEPT !.validator = <<[kind |-> "empty", schema |-> NoSchema]>>]

\* The body of the forEach over the operations of a path.
AttachOperation(operation) ==
    [operation EXCEPT
        !.parameters = [k \in 1..Len(@) |-> AttachParameter(@[k])],
        !.responses = [k \in 1..Len(@) |-> AttachResponse(@[k])]]

\* The body of the forEach over swagger.paths.
AttachPathItem(item) ==
    [item EXCEPT !.ops = [o \in 1..Len(@) |-> AttachOperation(@[o])]]

\* deref(document): the document graph the compiler works on.  The
\* collaborator either hands back the graph it was given or a clone of it.
deref(doc, h, clones) ==
    IF clones
    THEN [basePath |-> doc.basePath,
          paths |-> [i \in 1..Len(doc.paths) |->
                        [name |-> doc.paths[i].name, item |-> Len(h) + i]],
          heap |-> h \o [i \in 1..Len(doc.paths) |-> h[doc.paths[i].item]]]
    ELSE [basePath |-> doc.basePath, paths |-> doc.paths, heap |-> h]

\* One element of matcher.
CompiledPathOf(swagger, i) ==
    [name |-> swagger.paths[i].name,
     path |-> swagger.paths[i].item,
     regex |-> NewRegExp(swagger.basePath, swagger.paths[i].name),
     expected |-> SegmentTokens(swagger.paths[i].name)]

\* compile(document): dereference, attach the validators in place, build
\* the matcher list, return the dispatcher closing over it.
Compile ==
    /\ Len(compiled) < MaxCompiles
    /\    LET swagger == deref(document, heap, derefClones)
              items == {swagger.paths[i].item : i \in 1..Len(swagger.paths)}
              matcher == [i \in 1..Len(swagger.paths) |-> CompiledPathOf(swagger, i)]
          IN  /\ heap' = [id \in 1..Len(swagger.heap) |->
                             IF id \in items THEN AttachPathItem(swagger.heap[id])
                             ELSE swagger.heap[id]]
              /\ compiled' = Append(compiled,
                                 [swagger |-> [basePath |-> swagger.basePath,
                                               paths |-> swagger.paths],
                                  matcher |-> matcher])
    /\ UNCHANGED <<document, call, derefClones, coerceVars>>

----------------------------------------------------------------------------
(* Calls on the compiled artifacts                                         *)

NoCall ==
    [kind |-> "none", d |-> 0, path |-> <<>>, matches |-> <<>>, result |-> <<>>,
     item |-> 0, op |-> 0, idx |-> 0, value |-> Undefined,
     threw |-> FALSE, ret |-> FALSE]

\* A dispatcher that takes the first of several matches.
DispatcherFirstMatch(matches) ==
    IF Len(matches) = 0 THEN <<>> ELSE <<matches[1]>>

\* The tail of the dispatcher closure: the single match or nothing.
Dispatcher(matches) ==
    IF Len(matches) # 1 THEN <<>> ELSE <<matches[1]>>

\* matcher.filter((match) => !!path.match(match.regex))
Filter(matcher, path) ==
    LET hits == SelectSeq([i \in 1..Len(matcher) |-> i],
                          LAMBDA i : StringMatch(path, matcher[i].regex).matched)
    IN  [j \in 1..Len(hits) |-> matcher[hits[j]]]

\* The dispatcher returned by the d-th compile call, applied to path.  A
\* caller either starts afresh or repeats the call it has just made.
Dispatch(d, path) ==
    LET matcher == compiled[d].matcher
    IN  /\ call.kind = "none" \/ (call.kind = "dispatch" /\ call.d = d /\ call.path = path)
        /\ compiled' = [compiled EXCEPT ![d].matcher =
                           [i \in 1..Len(matcher) |->
                               [matcher[i] EXCEPT !.regex.lastIndex =
                                   StringMatch(path, matcher[i].regex).lastIndex]]]
        /\ call' = [NoCall EXCEPT !.kind = "dispatch", !.d = d, !.path = path,
                       !.matches = Filter(matcher, path),
                       !.result = Dispatcher(Filter(matcher, path))]
        /\ UNCHANGED <<document, heap, derefClones, coerceVars>>

\* The closure [kind, schema] applied to a value.
ApplyValidator(validator, value) ==
    CASE validator.kind = "string" ->
            [threw |-> stringValidator(validator.schema, value).threw,
             ret |-> stringValidator(validator.schema, value).ret]
      [] validator.kind = "json" ->
            [threw |-> FALSE, ret |-> jsonValidator(validator.schema, value)]
      [] validator.kind = "empty" ->
            [threw |-> FALSE,
             ret |-> value.t \in {"undefined", "null"}
                        \/ (value.t = "string" /\ value.v = <<>>)]

\* A caller takes the CompiledPath the dispatcher just returned and calls
\* the validator of one of its parameters.
CallParameterValidator(value) ==
    /\ call.kind = "dispatch" /\ call.result # <<>>
    /\ LET item == heap[call.result[1].path]
       IN  \E o \in 1..Len(item.ops) : \E k \in 1..Len(item.ops[o].parameters) :
           /\ item.ops[o].parameters[k].validator # <<>>
           /\ LET applied == ApplyValidator(item.ops[o].parameters[k].validator[1], value)
              IN  call' = [NoCall EXCEPT !.kind = "parameter", !.d = call.d,
                             !.item = call.result[1].path, !.op = o, !.idx = k,
                             !.value = value, !.threw = applied.threw,
                             !.ret = applied.ret]
    /\ UNCHANGED <<document, heap, compiled, derefClones, coerceVars>>

\* The same for one of its responses.
CallResponseValidator(value) ==
    /\ call.kind = "dispatch" /\ call.result # <<>>
    /\ LET item == heap[call.result[1].path]
       IN  \E o \in 1..Len(item.ops) : \E k \in 1..Len(item.ops[o].responses) :
           /\ item.ops[o].responses[k].validator # <<>>
           /\ LET applied == ApplyValidator(item.ops[o].responses[k].validator[1], value)
              IN  call' = [NoCall EXCEPT !.kind = "response", !.d = call.d,
                             !.item = call.result[1].path, !.op = o, !.idx = k,
                             !.value = value, !.threw = applied.threw,
                             !.ret = applied.ret]
    /\ UNCHANGED <<document, heap, compiled, derefClones, coerceVars>>

\* The caller lets go of what the last call returned.
Return ==
    /\ call.kind # "none"
    /\ call' = NoCall
    /\ UNCHANGED <<document, heap, compiled, derefClones, coerceVars>>

----------------------------------------------------------------------------
(* Documents and the specifications of the compiler's life cycle          *)

RECURSIVE PathOf(_)
PathOf(segs) ==
    IF segs = <<>> THEN <<>> ELSE <<"/">> \o Head(segs) \o PathOf(Tail(segs))

TemplateTokens == {<<"a">>, <<"b", "a">>, <<"{", "a", "}">>, <<"{", "b", "}">>}
PathSegs == {<<"a">>, <<"b", "a">>}
BasePaths == {<<"/", "a">>, <<"/", "b", "a">>}

Templates ==
    {PathOf(segs) : segs \in UNION {[1..n -> TemplateTokens] : n \in 1..MaxTemplateSegs}}

RequestPaths ==
    {PathOf(segs) : segs \in UNION {[1..n -> PathSegs] : n \in 1..MaxPathSegs}}

SmallValues ==
    {Undefined, Null, Str(<<>>), Str(<<"5">>), Str(<<"a">>), Num(5), Obj}

InlineParameter(in, required, type, items) ==
    [in |-> in, required |-> required, type |-> type, items |-> items,
     collectionFormat |-> "", schema |-> <<>>, validator |-> <<>>]

NestedParameter(in, required, sch) ==
    [in |-> in, required |-> required, type |-> "", items |-> <<>>,
     collectionFormat |-> "", schema |-> <<sch>>, validator |-> <<>>]

JsonSchema(type, required) ==
    [type |-> type, required |-> required, items |-> <<>>, collectionFormat |-> ""]

Response(status, sch) == [status |-> status, schema |-> sch, validator |-> <<>>]

ItemA ==
    [ops |-> <<[name |-> "get",
                parameters |-> <<InlineParameter("query", "true", "number", <<>>),
                                 NestedParameter("body", "false", JsonSchema("object", "absent"))>>,
                responses |-> <<Response("200", <<JsonSchema("number", "absent")>>),
                                Response("204", <<>>)>>]>>]

ItemB ==
    [ops |-> <<[name |-> "get", parameters |-> <<>>,
                responses |-> <<Response("204", <<>>)>>],
               [name |-> "post",
                parameters |-> <<InlineParameter("path", "true", "string", <<>>)>>,
                responses |-> <<Response("200", <<JsonSchema("string", "absent")>>)>>]>>]

LifecycleTemplates ==
    {<<"/", "a">>, <<"/", "{", "a", "}">>, <<"/", "{", "b", "}", "/", "a">>}

\* Parameters outside the body carry their type inline; a body parameter
\* carries a nested schema, whose own required is absent or a list of
\* property names.
InlineLocations == {"query", "header", "path", "formData"}

ParameterSpace ==
    {InlineParameter(in, r, ty, <<>>) :
        in \in InlineLocations, r \in {"true", "false"},
        ty \in {"number", "boolean", "string"}}
    \cup
    {InlineParameter(in, r, "array", <<[type |-> "number"]>>) :
        in \in InlineLocations, r \in {"true", "false"}}
    \cup
    {NestedParameter("body", r, JsonSchema(ty, sr)) :
        r \in {"true", "false"}, ty \in {"object", "string"}, sr \in {"absent", "array"}}

ResponseSpace ==
    {Response("200", sch) :
        sch \in {<<>>, <<JsonSchema("number", "absent")>>, <<JsonSchema("string", "absent")>>,
                  <<JsonSchema("object", "array")>>}}

Uncompiled ==
    /\ compiled = <<>>
    /\ call = NoCall
    /\ derefClones \in BOOLEAN
    /\ schema = NoSchema
    /\ outcome = [applied |-> FALSE, value |-> Undefined, threw |-> FALSE,
                  ret |-> FALSE, handed |-> Undefined]

\* Documents with one or two paths, some of them ambiguous.
Init ==
    /\ \E t1 \in LifecycleTemplates, t2 \in LifecycleTemplates :
          /\ document = [basePath |-> <<"/", "a">>,
                         paths |-> IF t1 = t2
                                   THEN <<[name |-> t1, item |-> 1]>>
                                   ELSE <<[name |-> t1, item |-> 1], [name |-> t2, item |-> 2]>>]
          /\ heap = IF t1 = t2 THEN <<ItemA>> ELSE <<ItemA, ItemB>>
    /\ Uncompiled

\* Documents with one path, over all templates and base paths.
InitPaths ==
    /\ \E basePath \in BasePaths, name \in Templates :
          document = [basePath |-> basePath, paths |-> <<[name |-> name, item |-> 1]>>]
    /\ heap = <<ItemA>>
    /\ Uncompiled

\* Documents with one path, one parameter and one response, over all
\* parameters and responses.
InitParameters ==
    /\ document = [basePath |-> <<"/", "a">>,
                   paths |-> <<[name |-> <<"/", "{", "a", "}">>, item |-> 1]>>]
    /\ \E parameter \in ParameterSpace, response \in ResponseSpace :
          heap = <<[ops |-> <<[name |-> "get", parameters |-> <<parameter>>,
                               responses |-> <<response>>]>>]>>
    /\ Uncompiled

Next ==
    \/ Compile
    \/ \E d \in 1..Len(compiled), path \in RequestPaths : Dispatch(d, path)
    \/ \E value \in SmallValues : CallParameterValidator(value)
    \/ \E value \in SmallValues : CallResponseValidator(value)
    \/ Return

Spec == Init /\ [][Next]_vars

SpecPaths == InitPaths /\ [][Next]_vars

SpecParameters == InitParameters /\ [][Next]_vars

----------------------------------------------------------------------------
(* Properties of the compiled document and its dispatcher                  *)

\* The entries of the d-th matcher whose pattern is found in path.
Hits(d, path) ==
    {i \in 1..Len(compiled[d].matcher) :
        RegExpSearch(compiled[d].matcher[i].regex.source, path)}

\* C1: the dispatcher returns a CompiledPath exactly when one and only one
\* entry's pattern matches the path, and then that entry; with no match or
\* with two or more matching templates it returns nothing.
C1_SingleMatchOrNothing ==
    call.kind = "dispatch" =>
        IF Cardinality(Hits(call.d, call.path)) = 1
        THEN call.result =
                <<compiled[call.d].matcher[CHOOSE i \in Hits(call.d, call.path) : TRUE]>>
        ELSE call.result = <<>>

C1_Witness ==
    /\ call.kind = "dispatch"
    /\ Cardinality(Hits(call.d, call.path)) >= 2
    /\ call.result = <<>>

\* Every parameter and response of the PathItem carries one validator.
Validated(item) ==
    \A o \in 1..Len(item.ops) :
        /\ \A k \in 1..Len(item.ops[o].parameters) :
              Len(item.ops[o].parameters[k].validator) = 1
        /\ \A k \in 1..Len(item.ops[o].responses) :
              Len(item.ops[o].responses[k].validator) = 1

\* C3: after compile returns every parameter and every response of the
\* compiled document carries a validator, and the path of every
\* CompiledPath is the very PathItem that was annotated.
C3_EveryEntityValidated ==
    /\ \A d \in 1..Len(compiled) :
          /\ Len(compiled[d].matcher) = Len(compiled[d].swagger.paths)
          /\ \A i \in 1..Len(compiled[d].matcher) :
                /\ compiled[d].matcher[i].path = compiled[d].swagger.paths[i].item
                /\ Validated(heap[compiled[d].swagger.paths[i].item])
    /\ (call.kind = "dispatch" /\ call.result # <<>>)
          => Validated(heap[call.result[1].path])

C3_Witness ==
    /\ call.kind = "dispatch"
    /\ call.result # <<>>
    /\ \E o \in 1..Len(heap[call.result[1].path].ops) :
          \E k \in 1..Len(heap[call.result[1].path].ops[o].parameters) :
              /\ heap[call.result[1].path].ops[o].parameters[k].in = "body"
              /\ Len(heap[call.result[1].path].ops[o].parameters[k].validator) = 1

\* C2: for every parameter, whatever its location and wherever its schema
\* sits, the validator applied to an absent value returns true when the
\* parameter is not required and false when it is required.
C2_AbsentValueFollowsRequired ==
    (call.kind = "parameter" /\ call.value.t = "undefined")
    => /\ ~call.threw
       /\ call.ret = (heap[call.item].ops[call.op].parameters[call.idx].required # "true")

\* C7: a response without a schema accepts exactly the absent body, null
\* and the empty string; a response with a schema gets the plain schema
\* validator, which does not coerce strings.
C7_ResponseBodies ==
    call.kind = "response" =>
        LET response == heap[call.item].ops[call.op].responses[call.idx]
        IN  /\ ~call.threw
            /\ IF response.schema = <<>>
               THEN call.ret = \/ call.value.t \in {"undefined", "null"}
                               \/ (call.value.t = "string" /\ call.value.v = <<>>)
               ELSE /\ (call.value.t = "string" /\ response.schema[1].type # "string")
                        => ~call.ret
                    /\ (call.value.t \notin {"undefined", "string"})
                        => call.ret = TypeOK(response.schema[1].type, call.value)

C7_Witness ==
    /\ call.kind = "response"
    /\ heap[call.item].ops[call.op].responses[call.idx].schema = <<>>
    /\ call.value = Str(<<"5">>)
    /\ ~call.ret

\* The template token is a {...} placeholder.
IsPlaceholder(token) == Head(token) = "{" /\ token[Len(token)] = "}"

\* s is basePath followed by name with every placeholder replaced by one
\* non-empty segment without '/'.
IsConcretePath(basePath, name, s) ==
    /\ Len(s) >= Len(basePath)
    /\ SubSeq(s, 1, Len(basePath)) = basePath
    /\ LET rest == SubSeq(s, Len(basePath) + 1, Len(s))
           given == SegmentTokens(rest)
           wanted == SegmentTokens(name)
       IN  /\ rest = PathOf(given)
           /\ Len(given) = Len(wanted)
           /\ \A i \in 1..Len(wanted) : IsPlaceholder(wanted[i]) \/ given[i] = wanted[i]

\* s is a concrete path with one more '/'-separated segment appended.
IsExtendedPath(basePath, name, s) ==
    \E n \in 1..(Len(s) - 2) :
        /\ IsConcretePath(basePath, name, SubSeq(s, 1, n))
        /\ s[n + 1] = "/"
        /\ \A m \in (n + 2)..Len(s) : s[m] # "/"

\* Some suffix of s (s itself included) is a concrete path.
EndsWithConcretePath(basePath, name, s) ==
    \E n \in 1..Len(s) : IsConcretePath(basePath, name, SubSeq(s, n, Len(s)))

\* The last dispatcher call found the pattern of the template name.
Matched(name) == \E j \in 1..Len(call.matches) : call.matches[j].name = name

C9_DispatcherPure ==
    [][/\ \A d \in 1..Len(compiled) : compiled'[d] = compiled[d]
       /\ Len(compiled') = Len(compiled) => (heap' = heap /\ document' = document)
       /\ (call.kind = "dispatch" /\ call'.kind = "dispatch"
            /\ call'.d = call.d /\ call'.path = call.path)
          => call'.result = call.result]_vars

C9_Witness ==
    /\ call.kind = "dispatch"
    /\ call.d = 1
    /\ Len(compiled) >= 2
    /\ call.result # <<>>

\* What a caller can observe of the d-th dispatcher: the template matched
\* for each path and the answer of each validator for each value.
TemplateFor(d, path) ==
    LET result == Dispatcher(Filter(compiled[d].matcher, path))
    IN  IF result = <<>> THEN <<>> ELSE <<result[1].name>>

Answers(d) ==
    [i \in 1..Len(compiled[d].matcher) |->
        LET item == heap[compiled[d].matcher[i].path]
        IN  [o \in 1..Len(item.ops) |->
                [parameters |->
                    [k \in 1..Len(item.ops[o].parameters) |->
                        [v \in SmallValues |->
                            ApplyValidator(item.ops[o].parameters[k].validator[1], v)]],
                 responses |->
                    [k \in 1..Len(item.ops[o].responses) |->
                        [v \in SmallValues |->
                            ApplyValidator(item.ops[o].responses[k].validator[1], v)]]]]]

\* C10: two compilations of the same document give dispatchers that match
\* the same template for every path and whose validators give the same
\* answers, and a later compilation leaves the answers of an earlier
\* dispatcher as they were.
C10_CompileTwiceSame ==
    /\ [](\A d \in 2..Len(compiled) :
            /\ \A path \in RequestPaths : TemplateFor(d, path) = TemplateFor(1, path)
            /\ Answers(d) = Answers(1))
    /\ [][Len(compiled') > Len(compiled) =>
            \A d \in 1..Len(compiled) :
                /\ Answers(d)' = Answers(d)
                /\ \A path \in RequestPaths : TemplateFor(d, path)' = TemplateFor(d, path)]_vars

C10_Witness ==
    /\ Len(compiled) >= 2
    /\ ~derefClones
    /\ call.kind = "parameter"
    /\ call.d = 1

----------------------------------------------------------------------------
(* The coercion validator on its own: a schema fragment is closed over,    *)
(* then the returned predicate is applied to a value.                      *)

SchemaTypes == {"", "number", "integer", "boolean", "string", "object"}
ItemTypes == {"number", "integer", "boolean", "string"}
CollectionFormats == {"", "csv", "ssv", "tsv", "pipes", "multi", "other"}

CoerceSchemas ==
    {[type |-> ty, required |-> r, items |-> <<>>, collectionFormat |-> ""] :
        ty \in SchemaTypes, r \in {"true", "false"}}
    \cup
    {[type |-> "array", required |-> r, items |-> it, collectionFormat |-> cf] :
        r \in {"true", "false"},
        it \in {<<>>} \cup {<<[type |-> ty]>> : ty \in ItemTypes},
        cf \in CollectionFormats}

TrueChars == <<"t", "r", "u", "e">>
FalseChars == <<"f", "a", "l", "s", "e">>

Tokens == {<<"1">>, <<"2", "3">>, <<"a">>, <<>>, TrueChars}
Separators == {",", " ", "\t", "|"}

DelimitedStrings ==
    {JoinStrings(toks, sep) :
        toks \in UNION {[1..n -> Tokens] : n \in 1..MaxElems}, sep \in Separators}

CoerceValues ==
    {Undefined, Null, Obj, Bool(TRUE), Bool(FALSE), Num(0), Num(5)}
    \cup {Str(s) : s \in DelimitedStrings \cup {FalseChars}}
    \cup {Arr(a) : a \in UNION {[1..n -> {Str(tok) : tok \in Tokens}] : n \in 0..2}}

InitCoerce ==
    /\ schema \in CoerceSchemas
    /\ outcome = [applied |-> FALSE, value |-> Undefined, threw |-> FALSE,
                  ret |-> FALSE, handed |-> Undefined]
    /\ document = [basePath |-> <<>>, paths |-> <<>>]
    /\ heap = <<>>
    /\ compiled = <<>>
    /\ call = NoCall
    /\ derefClones = FALSE

\* validator(value) on the closure stringValidator(schema) returned.
ApplyStringValidator(value) ==
    /\ ~outcome.applied
    /\ LET produced == stringValidator(schema, value)
       IN  outcome' = [applied |-> TRUE, value |-> value, threw |-> produced.threw,
                       ret |-> produced.ret, handed |-> produced.handed]
    /\ UNCHANGED <<schema, lifecycleVars>>

NextCoerce == \E value \in CoerceValues : ApplyStringValidator(value)

SpecCoerce == InitCoerce /\ [][NextCoerce]_vars

----------------------------------------------------------------------------
(* Properties of the coercion validator (checked under SpecCoerce)         *)

\* A string that reads as a decimal number, white space around it allowed.
IsNumericString(s) ==
    LET trimmed == TrimRight(TrimLeft(s))
    IN  trimmed # <<>> /\ \A i \in 1..Len(trimmed) : trimmed[i] \in Digits

\* A string of white space only (the empty string included).
IsBlank(s) == \A i \in 1..Len(s) : s[i] \in WhiteSpace

\* C4: a validator attached at compile time never throws: for every schema
\* fragment of the data model (an array type without items included) and
\* every value, applying it returns a boolean.
C4_NeverThrows == outcome.applied => ~outcome.threw

\* C5: under type number/integer a string that is not numeric is handed
\* unchanged to the underlying validator and is rejected, and a numeric
\* string is validated as its number and accepted.
C5_NonNumericRejected ==
    (outcome.applied /\ schema.type \in {"number", "integer"}
        /\ outcome.value.t = "string")
    => IF IsNumericString(outcome.value.v)
       THEN /\ outcome.handed = Num(DecimalValue(TrimRight(TrimLeft(outcome.value.v))))
            /\ outcome.ret
       ELSE /\ outcome.handed = outcome.value
            /\ ~outcome.ret

SeparatorOf(collectionFormat) ==
    CASE collectionFormat \in {"", "csv"} -> ","
      [] collectionFormat = "ssv" -> " "
      [] collectionFormat = "tsv" -> "\t"
      [] collectionFormat = "pipes" -> "|"

SepPositions(s, sep) == {i \in 1..Len(s) : s[i] = sep}

\* The k-th stretch of s between two neighbouring separators.
Piece(s, sep, k) ==
    LET P == SepPositions(s, sep)
        nth(j) == CHOOSE p \in P : Cardinality({q \in P : q < p}) = j - 1
        from == IF k = 1 THEN 1 ELSE nth(k - 1) + 1
        to == IF k = Cardinality(P) + 1 THEN Len(s) ELSE nth(k) - 1
    IN  SubSeq(s, from, to)

\* What an element of the split value is validated as.
ExpectedElement(itemType, piece, element) ==
    IF itemType \in {"number", "integer"}
    THEN IF IsNumericString(piece)
         THEN element = Num(DecimalValue(TrimRight(TrimLeft(piece))))
         ELSE IsBlank(piece) \/ element = Str(piece)
    ELSE IF itemType = "boolean" /\ piece = TrueChars THEN element = Bool(TRUE)
    ELSE IF itemType = "boolean" /\ piece = FalseChars THEN element = Bool(FALSE)
    ELSE element = Str(piece)

\* C6: under type array a value that is not a sequence is stringified and
\* split at the separator of its collectionFormat (csv when none is given;
\* multi and unknown formats make a one-element sequence of the raw value);
\* numeric elements become numbers under item type number/integer and
\* "true"/"false" become booleans under item type boolean; a value made of
\* numbers only passes an array-of-numbers schema in every format.
C6_SplitAndCoerce ==
    (outcome.applied /\ schema.type = "array" /\ schema.items # <<>>
        /\ outcome.value.t \in {"string", "number", "boolean"})
    => LET itemType == schema.items[1].type
           s == ToStringJS(outcome.value)
           h == outcome.handed
       IN  /\ ~outcome.threw
           /\ h.t = "array"
           /\ IF schema.collectionFormat \in {"", "csv", "ssv", "tsv", "pipes"}
              THEN LET sep == SeparatorOf(schema.collectionFormat)
                       n == Cardinality(SepPositions(s, sep)) + 1
                   IN  /\ Len(h.v) = n
                       /\ \A k \in 1..n :
                              ExpectedElement(itemType, Piece(s, sep, k), h.v[k])
                       /\ (itemType \in {"number", "integer"}
                            /\ \A k \in 1..n : IsNumericString(Piece(s, sep, k)))
                           => outcome.ret
              ELSE /\ Len(h.v) = 1
                   /\ outcome.value.t = "string"
                        => ExpectedElement(itemType, outcome.value.v, h.v[1])

C6_Witness ==
    /\ outcome.applied
    /\ schema.type = "array" /\ schema.items = <<[type |-> "number"]>>
    /\ schema.collectionFormat = "pipes"
    /\ outcome.value = Str(<<"1", "|", "2", "3", "|", "1">>)
    /\ outcome.handed = Arr(<<Num(1), Num(23), Num(1)>>)
    /\ outcome.ret

====
